---- MODULE Spec2Model ----
(***************************************************************************)
(* A model of src/script.js: the ROC / confusion-matrix teaching page.     *)
(*                                                                         *)
(* Numbers.  JavaScript numbers that hold scores, means and thresholds are *)
(* kept in fixed point, in units of 1/10000 (the literal 1 of the source   *)
(* is One).  Quotients of two counters (the metrics, the ROC coordinates)  *)
(* are kept exactly, as reduced fractions [num, den]; a zero denominator   *)
(* gives the two non-finite results of a JavaScript division.              *)
(* 32-bit words of the generator are pairs <<hi, lo>> of 16-bit halves, so *)
(* that no intermediate result leaves the range of the checker's integers. *)
(***************************************************************************)
EXTENDS Integers, Sequences, FiniteSets, TLC

(***************************************************************************)
(* Bounds of the model.                                                    *)
(***************************************************************************)
\* the points slider offers 1 .. MaxPoints
MaxPoints == 4
\* the separation slider offers 0, SepStep, .., MaxSepSteps * SepStep (tenths)
SepStep == 40
MaxSepSteps == 2
\* width of the threshold track, in pixels
TrackWidth == 4
\* datasets handed directly to the pure functions: length and value grid
MaxLen == 3
GridSteps == 2

(***************************************************************************)
(* Constants of the program.                                               *)
(***************************************************************************)
One == 10000
sigma == 1200
center == 5000
MaxMeanPos == 9500
MinMeanNeg == 500
InitSeed == 12345
GenSeed == 88675123
Increment == 1831565813
InitPoints == 20
InitSeparation == 20
InitThreshold == 5000
\* POS_RATIO, in tenths
POS_RATIO == 5

Cells == {"tp", "fp", "fn", "tn"}

\* the element of a one-element set; used to name an intermediate value
The(S) == CHOOSE x \in S : TRUE

Min(a, b) == IF a <= b THEN a ELSE b
Max(a, b) == IF a >= b THEN a ELSE b

(***************************************************************************)
(* 32-bit arithmetic of mulberry32.                                        *)
(***************************************************************************)
Word(n) == <<n \div 65536, n % 65536>>

Add32(a, b) ==
    LET lo == a[2] + b[2]
        hi == a[1] + b[1] + (lo \div 65536)
    IN  <<hi % 65536, lo % 65536>>

RECURSIVE XorBits(_, _, _)
XorBits(a, b, n) ==
    IF n = 0 THEN 0
    ELSE ((a + b) % 2) + 2 * XorBits(a \div 2, b \div 2, n - 1)

RECURSIVE OrBits(_, _, _)
OrBits(a, b, n) ==
    IF n = 0 THEN 0
    ELSE Max(a % 2, b % 2) + 2 * OrBits(a \div 2, b \div 2, n - 1)

\* the exclusive or of two bytes, tabulated once
Xor8 == [a \in 0 .. 255 |-> [b \in 0 .. 255 |-> XorBits(a, b, 8)]]

Xor16(a, b) == Xor8[a \div 256][b \div 256] * 256 + Xor8[a % 256][b % 256]

Xor32(a, b) == <<Xor16(a[1], b[1]), Xor16(a[2], b[2])>>

\* t | c for a constant c below 2^8
Or32(a, c) == <<a[1], (a[2] \div 256) * 256 + OrBits(a[2] % 256, c, 8)>>

\* t >>> k for 0 < k < 16
Shr32(a, k) ==
    LET p == 2 ^ k
    IN  <<a[1] \div p, (a[1] % p) * (65536 \div p) + (a[2] \div p)>>

\* the 32-bit product of two 16-bit halves, as <<hi, lo>>
Mul16(x, y) ==
    LET x1 == x \div 256
        x0 == x % 256
        y1 == y \div 256
        y0 == y % 256
        low == (x1 * y0 + x0 * y1) * 256 + x0 * y0
    IN  <<x1 * y1 + (low \div 65536), low % 65536>>

\* Math.imul: the low 32 bits of the product
Imul32(a, b) ==
    LET ll == Mul16(a[2], b[2])
        hl == Mul16(a[1], b[2])
        lh == Mul16(a[2], b[1])
    IN  <<(ll[1] + hl[2] + lh[2]) % 65536, ll[2]>>

\* var t = a += 0x6D2B79F5: the generator's counter after one call
Advance(a) == Add32(a, Word(Increment))

\* t = Math.imul(t ^ t >>> 15, t | 1)
MixFirst(t) == Imul32(Xor32(t, Shr32(t, 15)), Or32(t, 1))
\* t ^= t + Math.imul(t ^ t >>> 7, t | 61)
MixSecond(t) == Xor32(t, Add32(t, Imul32(Xor32(t, Shr32(t, 7)), Or32(t, 61))))
\* (t ^ t >>> 14) >>> 0
MixLast(t) == Xor32(t, Shr32(t, 14))

\* the 32-bit integer a call returns, before the division by 2^32
Mix(t0) ==
    The({MixLast(t2) : t2 \in {MixSecond(t1) : t1 \in {MixFirst(t0)}}})

(***************************************************************************)
(* randomGaussian.  The source computes, in floating point,               *)
(*     z = sqrt(-2 ln(1 - rng())) * cos(2 pi rng())                        *)
(* and returns z * stdev + mean clipped to [0, 1].  Here the two factors   *)
(* are read from tables indexed by the top five bits of each draw (the     *)
(* factor at the middle of the draw's 1/32 interval, in units of 1/10000), *)
(* and the rest is the source's arithmetic in fixed point.                 *)
(***************************************************************************)
\* sqrt(-2 ln(1 - u)) for u = (i + 1/2) / 32, i = 0 .. 31
Radius ==
    <<1775, 3099, 4034, 4813, 5505, 6142, 6739, 7308,
      7858, 8393, 8918, 9437, 9953, 10469, 10987, 11510,
      12041, 12582, 13138, 13711, 14307, 14929, 15585, 16283,
      17034, 17855, 18767, 19807, 21038, 22581, 24740, 28841>>

\* cos(2 pi v) for v = (j + 1/2) / 32, j = 0 .. 31
Cosine ==
    <<9952, 9569, 8819, 7730, 6344, 4714, 2903, 980,
      -980, -2903, -4714, -6344, -7730, -8819, -9569, -9952,
      -9952, -9569, -8819, -7730, -6344, -4714, -2903, -980,
      980, 2903, 4714, 6344, 7730, 8819, 9569, 9952>>

\* the top five bits of a draw: floor(32 * rng())
TopBits(r) == r[1] \div 2048

\* [value, rng]: the sample, and the generator's counter after its two draws
randomGaussian(mean, stdev, a) ==
    LET u == TopBits(Mix(Advance(a)))
        v == TopBits(Mix(Advance(Advance(a))))
        z == (Radius[u + 1] * Cosine[v + 1]) \div One
        val == ((z * stdev) \div One) + mean
    IN  [value |-> Max(0, Min(One, val)), rng |-> Advance(Advance(a))]

(***************************************************************************)
(* generateData.                                                           *)
(***************************************************************************)
\* rng = mulberry32(88675123): the counter the generation starts from
\* a variant that does not reseed: the generation goes on from the counter
ReseedKeep(a) == a
Reseed(a) == Word(GenSeed)

\* a variant that rounds up
NumPosCeil(pts) == (pts * POS_RATIO + 9) \div 10
\* Math.floor(state.points * POS_RATIO)
NumPos(pts) == (pts * POS_RATIO) \div 10

\* one iteration of a for-loop: a sample of the class pushed onto the data
Push(acc, mean, label) ==
    The({[data |-> Append(acc.data, [value |-> g.value, label |-> label]),
          rng |-> g.rng] : g \in {randomGaussian(mean, sigma, acc.rng)}})

\* one of the two for-loops: k samples of one class pushed in turn
RECURSIVE Loop(_, _, _, _)
Loop(k, mean, label, acc) ==
    IF k = 0 THEN acc
    ELSE The({Loop(k - 1, mean, label, next) : next \in {Push(acc, mean, label)}})

\* [data, rng] for state.points = pts and state.separation = sep (tenths),
\* called with the generator's counter at a
generateData(pts, sep, a) ==
    LET numPos == NumPos(pts)
        numNeg == pts - numPos
        offset == (sep * sigma) \div 20
        meanPos == Min(MaxMeanPos, center + offset)
        meanNeg == Max(MinMeanNeg, center - offset)
    IN  The({Loop(numNeg, meanNeg, 0, pos) :
                pos \in {Loop(numPos, meanPos, 1,
                              [data |-> <<>>, rng |-> Reseed(a)])}})

(***************************************************************************)
(* Quotients.                                                              *)
(***************************************************************************)
RECURSIVE GCD(_, _)
GCD(a, b) == IF b = 0 THEN a ELSE GCD(b, a % b)

NaN == [num |-> 0, den |-> 0]
Infinity == [num |-> 1, den |-> 0]
Zero == [num |-> 0, den |-> 1]

\* n / d for integers n >= 0 and d >= 0
Div(n, d) ==
    IF d = 0 THEN (IF n = 0 THEN NaN ELSE Infinity)
    ELSE LET g == GCD(n, d) IN [num |-> n \div g, den |-> d \div g]

IsFinite(x) == x.den > 0
Positive(x) == x.num > 0
AddNum(x, y) == Div(x.num * y.den + y.num * x.den, x.den * y.den)
MulNum(x, y) == Div(x.num * y.num, x.den * y.den)
DivNum(x, y) == Div(x.num * y.den, x.den * y.num)
Leq(x, y) == x.num * y.den <= y.num * x.den

(***************************************************************************)
(* calculateMetrics.                                                       *)
(***************************************************************************)
\* a variant with the strict comparison
PredictedPosStrict(value, t) == value > t
\* p.value >= state.threshold
PredictedPos(value, t) == value >= t

\* a variant of the callback without its first else: a positive is counted twice
ClassifyNoElse(c, p, t) ==
    LET c1 == IF p.label = 1 /\ PredictedPos(p.value, t)
              THEN [c EXCEPT !.tp = @ + 1] ELSE c
    IN  IF PredictedPos(p.value, t)
        THEN [c1 EXCEPT !.fp = @ + 1] ELSE [c1 EXCEPT !.tn = @ + 1]
\* the forEach callback: the counters after sample p
Classify(c, p, t) ==
    IF p.label = 1
    THEN (IF PredictedPos(p.value, t)
          THEN [c EXCEPT !.tp = @ + 1] ELSE [c EXCEPT !.fn = @ + 1])
    ELSE (IF PredictedPos(p.value, t)
          THEN [c EXCEPT !.fp = @ + 1] ELSE [c EXCEPT !.tn = @ + 1])

\* the forEach over the first i samples: the four counters after it
RECURSIVE Tally(_, _, _)
Tally(d, t, i) ==
    IF i = 0 THEN [tp |-> 0, fp |-> 0, tn |-> 0, fn |-> 0]
    ELSE Classify(Tally(d, t, i - 1), d[i], t)

\* a variant without the guard on the denominator
RatioUnguarded(n, d) == Div(n, d)
\* d > 0 ? n / d : 0
Ratio(n, d) == IF d > 0 THEN Div(n, d) ELSE Zero

calculateMetrics(d, t) ==
    LET c == Tally(d, t, Len(d))
        total == Len(d)
        precision == Ratio(c.tp, c.tp + c.fp)
        recall == Ratio(c.tp, c.tp + c.fn)
        sum == AddNum(precision, recall)
    IN  [tp |-> c.tp, fp |-> c.fp, fn |-> c.fn, tn |-> c.tn,
         accuracy |-> Div(c.tp + c.tn, total),
         precision |-> precision,
         recall |-> recall,
         fpr |-> Ratio(c.fp, c.fp + c.tn),
         f1 |-> IF Positive(sum)
                THEN DivNum(MulNum(Div(2, 1), MulNum(precision, recall)), sum)
                ELSE Zero]

(***************************************************************************)
(* drawROC: the sorted copy and the sweep.                                 *)
(***************************************************************************)
\* a variant with the operands exchanged
CompareAscending(a, b) == a.value - b.value
\* the comparator (a, b) => b.value - a.value
Compare(a, b) == b.value - a.value

\* x placed into a sorted sequence behind every element it does not precede
RECURSIVE InsertSorted(_, _)
InsertSorted(s, x) ==
    IF s = <<>> THEN <<x>>
    ELSE IF Compare(x, Head(s)) < 0 THEN <<x>> \o s
    ELSE <<Head(s)>> \o InsertSorted(Tail(s), x)

\* [...state.data].sort(...) of the first i samples; the sort is stable
RECURSIVE SortPrefix(_, _)
SortPrefix(d, i) ==
    IF i = 0 THEN <<>> ELSE InsertSorted(SortPrefix(d, i - 1), d[i])

sortedData(d) == SortPrefix(d, Len(d))

\* state.data.filter(d => d.label === l).length
CountLabel(d, l) == Cardinality({i \in DOMAIN d : d[i].label = l})

\* a variant without the else: both counters move
SweepStepBoth(c, label) == [tp |-> c.tp + 1, fp |-> c.fp + 1]
\* if (label === 1) tp++; else fp++;
SweepStep(c, label) ==
    IF label = 1 THEN [c EXCEPT !.tp = @ + 1] ELSE [c EXCEPT !.fp = @ + 1]

\* the counters and the points pushed after i iterations of the sweep
RECURSIVE Sweep(_, _, _, _)
Sweep(sorted, i, totalPos, totalNeg) ==
    IF i = 0
    THEN [c |-> [tp |-> 0, fp |-> 0], points |-> <<[x |-> Zero, y |-> Zero]>>]
    ELSE LET before == Sweep(sorted, i - 1, totalPos, totalNeg)
             c == SweepStep(before.c, sorted[i].label)
         IN  [c |-> c,
              points |-> Append(before.points,
                                [x |-> Div(c.fp, totalNeg),
                                 y |-> Div(c.tp, totalPos)])]

rocPoints(d) ==
    Sweep(sortedData(d), Len(d), CountLabel(d, 1), CountLabel(d, 0)).points

(***************************************************************************)
(* drawDistribution: the samples drawn with a cross.                       *)
(***************************************************************************)
isMisclassified(item, t) ==
    LET predictedPos == item.value >= t
    IN  (item.label = 1 /\ ~predictedPos) \/ (item.label = 0 /\ predictedPos)

drawDistribution(d, t) == {i \in DOMAIN d : isMisclassified(d[i], t)}

\* what draw() leaves on the two canvases
draw(d, t, m) ==
    [crossed |-> drawDistribution(d, t),
     curve |-> rocPoints(d),
     dot |-> [x |-> m.fpr, y |-> m.recall]]

(***************************************************************************)
(* updateUI: the handle, the matrix counts and the masks.  (The five       *)
(* metric texts are toFixed(2) of state.metrics and are not kept.)         *)
(***************************************************************************)
updateUI(m, t, edu, rev) ==
    [handle |-> t,
     tp |-> m.tp, fp |-> m.fp, fn |-> m.fn, tn |-> m.tn,
     masked |-> IF edu THEN Cells \ rev ELSE {},
     panelMasked |-> IF edu THEN Cardinality(rev) # 4 ELSE FALSE]

\* a variant that forgets the reset
resetEducationNever(edu, rev) == rev
resetEducation(edu, rev) == IF edu THEN {} ELSE rev

(***************************************************************************)
(* The state.                                                              *)
(***************************************************************************)
VARIABLES
    data,           \* state.data: sequence of [value, label]
    separation,     \* state.separation, in tenths
    points,         \* state.points
    threshold,      \* state.threshold, in units of 1/10000
    metrics,        \* state.metrics
    educationMode,  \* state.educationMode
    revealed,       \* state.revealed
    isDragging,     \* the closure variable of setupEventListeners
    rng,            \* the counter a of the global generator
    dom,            \* what updateUI last wrote
    canvas          \* what draw last drew

vars == <<data, separation, points, threshold, metrics, educationMode,
          revealed, isDragging, rng, dom, canvas>>

\* the slider positions and mouse offsets the model offers
PointChoices == 1 .. MaxPoints
SeparationChoices == {k * SepStep : k \in 0 .. MaxSepSteps}
MouseOffsets == -1 .. (TrackWidth + 1)

\* a variant that skips calculateMetrics
updateStale ==
    /\ metrics' = metrics
    /\ dom' = updateUI(metrics', threshold', educationMode', revealed')
    /\ canvas' = draw(data', threshold', metrics')
\* update(): calculateMetrics, updateUI, draw, over the handler's new state
update ==
    /\ metrics' = calculateMetrics(data', threshold')
    /\ dom' = updateUI(metrics', threshold', educationMode', revealed')
    /\ canvas' = draw(data', threshold', metrics')

\* state.threshold after updateThresholdFromMouse, x = e.clientX - rect.left
thresholdFromMouse(x) == (Max(0, Min(x, TrackWidth)) * One) \div TrackWidth

Init ==
    /\ separation = InitSeparation
    /\ points = InitPoints
    /\ threshold = InitThreshold
    /\ educationMode = FALSE
    /\ revealed = {}
    /\ isDragging = FALSE
    /\ \E g \in {generateData(points, separation, Word(InitSeed))} :
            data = g.data /\ rng = g.rng
    /\ metrics = calculateMetrics(data, threshold)
    /\ dom = updateUI(metrics, threshold, educationMode, revealed)
    /\ canvas = draw(data, threshold, metrics)

SeparationInput(s) ==
    /\ separation' = s
    /\ \E g \in {generateData(points, s, rng)} : data' = g.data /\ rng' = g.rng
    /\ revealed' = resetEducation(educationMode, revealed)
    /\ UNCHANGED <<points, threshold, educationMode, isDragging>>
    /\ update

PointsInput(p) ==
    /\ points' = p
    /\ \E g \in {generateData(p, separation, rng)} : data' = g.data /\ rng' = g.rng
    /\ revealed' = resetEducation(educationMode, revealed)
    /\ UNCHANGED <<separation, threshold, educationMode, isDragging>>
    /\ update

HandleMouseDown ==
    /\ isDragging' = TRUE
    /\ UNCHANGED <<data, separation, points, threshold, metrics, educationMode,
                   revealed, rng, dom, canvas>>

MouseUp ==
    /\ isDragging' = FALSE
    /\ UNCHANGED <<data, separation, points, threshold, metrics, educationMode,
                   revealed, rng, dom, canvas>>

\* mousedown on the track, e.target !== els.handle
TrackMouseDown(x) ==
    /\ threshold' = thresholdFromMouse(x)
    /\ revealed' = resetEducation(educationMode, revealed)
    /\ isDragging' = TRUE
    /\ UNCHANGED <<data, separation, points, educationMode, rng>>
    /\ update

\* updateThresholdFromMouse resets and updates, and the handler does so again
MouseMove(x) ==
    /\ isDragging
    /\ threshold' = thresholdFromMouse(x)
    /\ revealed' = resetEducation(educationMode,
                                  resetEducation(educationMode, revealed))
    /\ UNCHANGED <<data, separation, points, educationMode, isDragging, rng>>
    /\ update

EducationToggle(checked) ==
    /\ educationMode' = checked
    /\ revealed' = {}
    /\ UNCHANGED <<data, separation, points, threshold, isDragging, rng>>
    /\ update

CellClick(key) ==
    /\ educationMode
    /\ key \notin revealed
    /\ revealed' = revealed \cup {key}
    /\ dom' = updateUI(metrics, threshold, educationMode, revealed')
    /\ UNCHANGED <<data, separation, points, threshold, metrics, educationMode,
                   isDragging, rng, canvas>>

\* the ResizeObserver callback: the canvases are drawn again
Resize ==
    /\ canvas' = draw(data, threshold, metrics)
    /\ UNCHANGED <<data, separation, points, threshold, metrics, educationMode,
                   revealed, isDragging, rng, dom>>

Next ==
    \/ \E s \in SeparationChoices : SeparationInput(s)
    \/ \E p \in PointChoices : PointsInput(p)
    \/ HandleMouseDown
    \/ MouseUp
    \/ \E x \in MouseOffsets : TrackMouseDown(x)
    \/ \E x \in MouseOffsets : MouseMove(x)
    \/ \E checked \in BOOLEAN : EducationToggle(checked)
    \/ \E key \in Cells : CellClick(key)
    \/ Resize

Spec == Init /\ [][Next]_vars

(***************************************************************************)
(* The pure functions on their own: calculateMetrics, drawDistribution and *)
(* drawROC applied to any small dataset and any threshold of a grid.       *)
(***************************************************************************)
SampleValues == {(k * One) \div GridSteps : k \in 0 .. GridSteps}
Datasets ==
    UNION {[1 .. n -> [value : SampleValues, label : {0, 1}]] : n \in 1 .. MaxLen}
PureThresholds == {(k * One) \div (2 * GridSteps) : k \in 0 .. (2 * GridSteps)}

\* state.metrics = {} and nothing written or drawn yet
NoMetrics == [tp |-> "undefined", fp |-> "undefined", fn |-> "undefined",
              tn |-> "undefined"]
NoDom == [handle |-> "unset", masked |-> {}, panelMasked |-> FALSE]
Blank == [crossed |-> {}, curve |-> <<>>]

InitPure ==
    /\ data \in Datasets
    /\ points = Len(data)
    /\ separation = InitSeparation
    /\ threshold = InitThreshold
    /\ educationMode = FALSE
    /\ revealed = {}
    /\ isDragging = FALSE
    /\ rng = Word(InitSeed)
    /\ metrics = NoMetrics
    /\ dom = NoDom
    /\ canvas = Blank

\* update() with state.threshold = t
Recompute(t) ==
    /\ threshold' = t
    /\ UNCHANGED <<data, separation, points, educationMode, revealed,
                   isDragging, rng>>
    /\ update

NextPure == \E t \in PureThresholds : Recompute(t)

SpecPure == InitPure /\ [][NextPure]_vars

\* update() has run: the curve holds at least its first point
Updated == canvas.curve # <<>>

BothClasses == CountLabel(data, 1) > 0 /\ CountLabel(data, 0) > 0

(***************************************************************************)
(* Properties.                                                             *)
(***************************************************************************)

\* C1: state.data has exactly state.points samples; the first
\* floor(points * 0.5) carry label 1 and all the others label 0, so that
\* every label-1 sample comes before every label-0 sample.
C1_ClassBalance ==
    /\ Len(data) = points
    /\ \A i \in 1 .. Len(data) :
           data[i].label = IF i <= points \div 2 THEN 1 ELSE 0
    /\ CountLabel(data, 1) = points \div 2
    /\ CountLabel(data, 0) = points - (points \div 2)

\* an odd point count has been generated: the extra sample is a negative
C1_Witness ==
    /\ points = 3
    /\ Len(data) = 3
    /\ data[1].label = 1 /\ data[2].label = 0 /\ data[3].label = 0

\* C2: after calculateMetrics every sample is counted in exactly one of
\* tp, fp, fn, tn: the four add up to the dataset length, tp + fn is the
\* number of label-1 samples and fp + tn the number of label-0 samples.
C2_MatrixTotals ==
    Updated =>
        /\ metrics.tp + metrics.fp + metrics.fn + metrics.tn = Len(data)
        /\ metrics.tp + metrics.fn = CountLabel(data, 1)
        /\ metrics.fp + metrics.tn = CountLabel(data, 0)
        /\ \A k \in {metrics.tp, metrics.fp, metrics.fn, metrics.tn} : k >= 0

\* a matrix with all four cells non-zero has been computed
C2_Witness ==
    /\ Updated
    /\ Len(data) = 3
    /\ metrics.tp = 1 /\ metrics.fn = 1 /\ metrics.fp = 1 /\ metrics.tn = 0

\* C3: whatever events came before, state.data is the dataset a freshly
\* loaded page generates for the current (points, separation): generation
\* depends on nothing but these two values.
C3_Deterministic ==
    data = generateData(points, separation, Word(InitSeed)).data

\* a dataset regenerated after other generations, drags, a toggle and clicks
C3_Witness ==
    /\ points = 3
    /\ separation # InitSeparation
    /\ threshold # InitThreshold
    /\ educationMode
    /\ revealed = {"tp", "fn"}
    /\ rng # Word(InitSeed)

\* C4: state.metrics, and the matrix counts on the page, are those computed
\* from scratch over the current state.data and state.threshold.
C4_MetricsFresh ==
    /\ metrics = calculateMetrics(data, threshold)
    /\ dom.tp = metrics.tp /\ dom.fp = metrics.fp
    /\ dom.fn = metrics.fn /\ dom.tn = metrics.tn
    /\ dom.handle = threshold

\* the threshold was dragged and the data regenerated, and counts moved
C4_Witness ==
    /\ threshold = 0
    /\ points = 4
    /\ separation # InitSeparation
    /\ metrics.fp = 2
    /\ isDragging

\* the counter a ROC coordinate stands for: coordinate times class total
CounterOf(q, total) == (q.num * total) \div q.den

\* C5: with both classes present the sweep gives n + 1 points, from (0,0)
\* to (1,1), never decreasing in either coordinate, each step adding one to
\* exactly one of the counters fp and tp.
C5_Sweep ==
    (Updated /\ BothClasses) =>
        LET curve == canvas.curve
            n == Len(data)
            totalPos == CountLabel(data, 1)
            totalNeg == CountLabel(data, 0)
        IN  /\ Len(curve) = n + 1
            /\ curve[1] = [x |-> Div(0, 1), y |-> Div(0, 1)]
            /\ curve[n + 1] = [x |-> Div(1, 1), y |-> Div(1, 1)]
            /\ \A i \in 1 .. n :
                   /\ IsFinite(curve[i].x) /\ IsFinite(curve[i + 1].x)
                   /\ IsFinite(curve[i].y) /\ IsFinite(curve[i + 1].y)
                   /\ Leq(curve[i].x, curve[i + 1].x)
                   /\ Leq(curve[i].y, curve[i + 1].y)
                   /\ LET fp0 == CounterOf(curve[i].x, totalNeg)
                          fp1 == CounterOf(curve[i + 1].x, totalNeg)
                          tp0 == CounterOf(curve[i].y, totalPos)
                          tp1 == CounterOf(curve[i + 1].y, totalPos)
                      IN  \/ fp1 = fp0 + 1 /\ tp1 = tp0
                          \/ fp1 = fp0 /\ tp1 = tp0 + 1

\* a curve over three samples of both classes, two of them tied
C5_Witness ==
    /\ Updated
    /\ BothClasses
    /\ Len(data) = 3
    /\ data[1].value = data[2].value
    /\ data[1].label # data[2].label
    /\ Len(canvas.curve) = 4

\* the distinct sample values, and the k-th largest of them
ValuesOf(d) == {d[i].value : i \in DOMAIN d}
KthLargest(vals, k) == CHOOSE v \in vals : Cardinality({w \in vals : w > v}) = k - 1

\* C6: with both classes present, the points of the sweep after (0,0) are
\* exactly the (fpr, recall) pairs of calculateMetrics with the threshold at
\* each distinct sample value, in descending order of value -- also when
\* several samples share a value.
C6_SweepIsThresholdScan ==
    BothClasses =>
        LET vals == ValuesOf(data)
            curve == canvas.curve
        IN  /\ Len(curve) - 1 = Cardinality(vals)
            /\ \A k \in 1 .. Cardinality(vals) :
                   curve[k + 1] =
                       [x |-> calculateMetrics(data, KthLargest(vals, k)).fpr,
                        y |-> calculateMetrics(data, KthLargest(vals, k)).recall]

Unit == Div(1, 1)
\* q is the quotient n / d of a non-zero d
IsRatio(q, n, d) == q.den > 0 /\ q.num * d = n * q.den

\* C7: for a dataset of length >= 1, single-class ones included, every
\* metric is a finite number in [0,1]; precision, recall, fpr and f1 are 0
\* when their denominator is 0 and their defining ratio otherwise.
C7_MetricsTotal ==
    (Updated /\ Len(data) >= 1) =>
        LET m == metrics
            p == m.precision
            r == m.recall
        IN  /\ \A q \in {m.accuracy, m.precision, m.recall, m.fpr, m.f1} :
                   IsFinite(q) /\ Leq(Zero, q) /\ Leq(q, Unit)
            /\ IsRatio(m.accuracy, m.tp + m.tn, Len(data))
            /\ IF m.tp + m.fp = 0 THEN p = Zero
               ELSE IsRatio(p, m.tp, m.tp + m.fp)
            /\ IF m.tp + m.fn = 0 THEN r = Zero
               ELSE IsRatio(r, m.tp, m.tp + m.fn)
            /\ IF m.fp + m.tn = 0 THEN m.fpr = Zero
               ELSE IsRatio(m.fpr, m.fp, m.fp + m.tn)
            /\ IF p.num = 0 /\ r.num = 0 THEN m.f1 = Zero
               ELSE IsRatio(m.f1, 2 * p.num * r.num,
                            p.num * r.den + r.num * p.den)

\* metrics of a dataset without positives, nothing predicted positive:
\* three of the denominators are zero
C7_Witness ==
    /\ Updated
    /\ CountLabel(data, 1) = 0
    /\ metrics.fp = 0
    /\ metrics.precision = Zero /\ metrics.recall = Zero /\ metrics.f1 = Zero
    /\ metrics.accuracy = Unit

\* C8: a sample is predicted positive exactly when its value is at or above
\* the threshold -- a sample at the threshold counts in tp or fp -- and the
\* crosses of the dot plot are exactly the samples counted in fp or fn.
C8_Inclusive ==
    Updated =>
        LET at(l) == {i \in DOMAIN data :
                          data[i].label = l /\ data[i].value >= threshold}
            below(l) == {i \in DOMAIN data :
                             data[i].label = l /\ data[i].value < threshold}
        IN  /\ metrics.tp = Cardinality(at(1))
            /\ metrics.fp = Cardinality(at(0))
            /\ metrics.fn = Cardinality(below(1))
            /\ metrics.tn = Cardinality(below(0))
            /\ canvas.crossed = at(0) \cup below(1)

\* a negative and a positive both exactly at the threshold: the negative is
\* counted as a false positive and crossed, the positive is not crossed
C8_Witness ==
    /\ Updated
    /\ Len(data) = 2
    /\ data[1] = [value |-> threshold, label |-> 0]
    /\ data[2] = [value |-> threshold, label |-> 1]
    /\ metrics.fp = 1 /\ metrics.tp = 1
    /\ canvas.crossed = {1}

\* C9: with both classes present, the red dot (fpr, recall) is the point of
\* the drawn curve at index k, k the number of samples at or above the
\* threshold.
C9_DotOnCurve ==
    BothClasses =>
        LET k == Cardinality({i \in DOMAIN data : data[i].value >= threshold})
        IN  canvas.dot = canvas.curve[k + 1]

\* the threshold sits on a value two samples share
C9_Witness ==
    /\ BothClasses
    /\ \E i, j \in DOMAIN data :
           i # j /\ data[i].value = threshold /\ data[j].value = threshold
    /\ canvas.dot = canvas.curve[3]

\* a step of a handler that sets the threshold, regenerates the data or
\* toggles education mode
ChangeStep ==
    \/ \E s \in SeparationChoices : SeparationInput(s)
    \/ \E p \in PointChoices : PointsInput(p)
    \/ \E x \in MouseOffsets : TrackMouseDown(x) \/ MouseMove(x)
    \/ \E checked \in BOOLEAN : EducationToggle(checked)

\* C10: nothing is revealed while education mode is off; while it is on the
\* masked cells are those not revealed and the panel is unmasked only with
\* all four revealed; a cell becomes revealed only by a step that changes
\* nothing else of the state (a click); and every change of threshold, data
\* or mode leaves nothing revealed and, in education mode, all four cells
\* and the panel masked.
C10_Reveals ==
    /\ [](/\ ~educationMode => revealed = {}
          /\ educationMode =>
                 /\ dom.masked = Cells \ revealed
                 /\ ~dom.panelMasked => revealed = Cells)
    /\ [][/\ revealed' \subseteq revealed
             \/ /\ educationMode /\ educationMode'
                /\ Cardinality(revealed' \ revealed) = 1
                /\ UNCHANGED <<data, threshold, metrics, canvas>>
          /\ \/ /\ revealed' = {}
                /\ educationMode' => dom'.masked = Cells /\ dom'.panelMasked
             \/ ~ChangeStep]_vars

\* all four cells clicked after a regeneration: the panel is shown
C10_Witness ==
    /\ educationMode
    /\ revealed = Cells
    /\ ~dom.panelMasked
    /\ dom.masked = {}
    /\ points # InitPoints

====
